---- MODULE Spec2Model ----
(***************************************************************************)
(* Model of the genesis generator (gen/src/main.rs) and of its precompile  *)
(* handlers (gen/src/precompile/mod.rs).                                    *)
(*                                                                         *)
(* The EVM executor (crate evm) and the builtins (crate ethcore_builtin)   *)
(* are external libraries: what they return is an input of the model,      *)
(* drawn from small sets.  Everything the repository's own code does with  *)
(* those results is modelled from the source.                              *)
(*                                                                         *)
(* Option<T> is modelled as a set with at most one element: {} is None,    *)
(* {x} is Some(x).                                                         *)
(***************************************************************************)
EXTENDS Integers, Sequences, FiniteSets, TLC

VARIABLES
    pc,                 \* position of main/create_genesis_config
    genesis_alloc,      \* genesis.alloc: address -> GenesisAccount
    backend,            \* the MemoryBackend's state (the world state store)
    reason,             \* ExitReason returned by transact_create_with_address
    changes,            \* the Apply sequence returned by deconstruct()
    contract_address,   \* target of the latest simulate_system_contract call
    stdout_deletes,     \* "delete: {address}" lines printed by the latest call
    simulate_result,    \* Result returned by simulate_system_contract
    invoke_result,      \* Result returned by invoke_constructor
    file,               \* the genesis file on disk (Option): what was written
                        \* of which genesis.alloc, whole or cut short
    run_result,         \* Result returned by create_genesis_config
    calls,              \* number of simulate_system_contract calls so far
    sim_input,          \* inputs of the latest simulate_system_contract call
    executor,           \* what the EVM executor has answered so far, by what
                        \* it was given
    first,              \* for each input simulated so far, the entry its first
                        \* simulation produced
    builtins,           \* the lazy static ISTANBUL_BUILTINS: not yet loaded,
                        \* loaded with a table of addresses, or poisoned
    presult,            \* latest precompile handler call and its result
    cfg_validators,     \* cfg.validators: Vec<H160>
    cfg_initial_stakes, \* cfg.initial_stakes: HashMap<H160, U256>
    ctor_inputs         \* the staking constructor's inputs, once built (Option)

vars == <<pc, genesis_alloc, backend, reason, changes, contract_address,
          stdout_deletes, simulate_result, invoke_result, file, run_result,
          calls, sim_input, executor, first, builtins, presult, cfg_validators, cfg_initial_stakes,
          ctor_inputs>>

mainVars == <<pc, invoke_result, file, run_result>>
simVars == <<genesis_alloc, backend, reason, changes, contract_address,
             stdout_deletes, simulate_result, calls, sim_input, executor,
             first>>
precompileVars == <<builtins, presult>>
cfgVars == <<cfg_validators, cfg_initial_stakes>>

-----------------------------------------------------------------------------
(* Bounds of the model *)

\* longest Apply sequence the executor reports
MaxChanges == 2
\* most storage upserts carried by one Apply::Modify
MaxUpserts == 2
\* most simulate_system_contract calls on one Genesis
MaxCalls == 3
\* bits of the scaled-down u64 (gas); the scaled-down U256 (cost) has one more
GasBits == 2
\* longest validator list of a GenesisConfig
MaxValidators == 2

-----------------------------------------------------------------------------
(* Program constants *)

STAKING_ADDRESS == 4096
SLASHING_INDICATOR_ADDRESS == 4097
\* DEV_NET.chain_id
DEV_NET_CHAIN_ID == 14000

SystemContracts == {STAKING_ADDRESS, SLASHING_INDICATOR_ADDRESS}

\* evm::ExitReason: Succeed(_) is success, the three others are failures
ExitReasons == {"Succeed", "Error", "Revert", "Fatal"}
FailedReasons == ExitReasons \ {"Succeed"}

\* precompile_entry!(map, ISTANBUL_BUILTINS, 1..9)
RegisteredIndices == 1..9

U64Max == 2^GasBits - 1
U256Max == 2^(GasBits + 1) - 1

-----------------------------------------------------------------------------
(* Helpers for Option and hex *)

None == {}
Some(x) == {x}
Unwrap(o) == CHOOSE x \in o : TRUE

HexDigits == <<"0", "1", "2", "3", "4", "5", "6", "7",
               "8", "9", "a", "b", "c", "d", "e", "f">>

\* hex::encode: two lower-case digits per byte, high nibble first
RECURSIVE HexEncode(_)
HexEncode(bytes) ==
    IF bytes = <<>> THEN ""
    ELSE HexDigits[(Head(bytes) \div 16) + 1] \o HexDigits[(Head(bytes) % 16) + 1]
         \o HexEncode(Tail(bytes))

-----------------------------------------------------------------------------
(* Inputs: what the executor can report *)

\* storage upserts (key, value): two keys, one of them written with two values
Upsert == {<<1, 7>>, <<2, 8>>, <<1, 9>>}

RECURSIVE SeqsUpTo(_, _)
SeqsUpTo(S, n) ==
    IF n = 0 THEN {<<>>}
    ELSE LET shorter == SeqsUpTo(S, n - 1)
         IN shorter \cup {Append(s, x) : s \in {t \in shorter : Len(t) = n - 1}, x \in S}

StorageWrites == SeqsUpTo(Upsert, MaxUpserts)

\* deployed code blobs: the empty code and PUSH1 0xfe-like bytes
CodeBlobs == {<<>>, <<96, 254>>}

Modify(a, bal, non, code, sto, reset) ==
    [type |-> "Modify", address |-> a, balance |-> bal, nonce |-> non,
     code |-> code, storage |-> sto, reset_storage |-> reset]

Delete(a) == [type |-> "Delete", address |-> a]

\* Apply::Modify entries for address a: the basic fields vary, or the code
\* varies, or the storage upserts vary
ModifiesOf(a) ==
    {Modify(a, bal, non, None, <<>>, FALSE) : bal \in {0, 5}, non \in {0, 1}}
    \cup {Modify(a, 0, 1, Some(c), <<>>, TRUE) : c \in CodeBlobs}
    \cup {Modify(a, 0, 1, None, s, FALSE) : s \in StorageWrites}

BystanderModifies(a) ==
    {Modify(a, 5, 1, Some(<<96, 254>>), <<<<1, 9>>>>, TRUE),
     Modify(a, 5, 0, None, <<>>, FALSE)}

\* the entries of a changes sequence when the contract is deployed at target
ChangeEntries(target) ==
    ModifiesOf(target)
    \cup UNION {BystanderModifies(a) : a \in SystemContracts \ {target}}
    \cup {Delete(a) : a \in SystemContracts}

ChangeSeqs(target) == SeqsUpTo(ChangeEntries(target), MaxChanges)

-----------------------------------------------------------------------------
(* GenesisAccount and the state diff loop of simulate_system_contract *)

\* storage: BTreeMap<H256, H256>, kept as its in-order list of (key, value)
EmptyStorage == <<>>

\* BTreeMap::insert with the key already present keeps the older value
BTreeInsertKeepOld(m, k, v) ==
    IF \E i \in DOMAIN m : m[i][1] = k THEN m
    ELSE LET n == Cardinality({i \in DOMAIN m : m[i][1] < k})
         IN SubSeq(m, 1, n) \o <<<<k, v>>>> \o SubSeq(m, n + 1, Len(m))

\* BTreeMap::insert: replaces the value of a present key, else inserts in key order
BTreeInsert(m, k, v) ==
    IF \E i \in DOMAIN m : m[i][1] = k
    THEN [i \in DOMAIN m |-> IF m[i][1] = k THEN <<k, v>> ELSE m[i]]
    ELSE LET n == Cardinality({i \in DOMAIN m : m[i][1] < k})
         IN SubSeq(m, 1, n) \o <<<<k, v>>>> \o SubSeq(m, n + 1, Len(m))

\* for (index, value) in storage { account.storage.insert(index, value); }
RECURSIVE InsertAll(_, _)
InsertAll(m, upserts) ==
    IF upserts = <<>> THEN m
    ELSE InsertAll(BTreeInsert(m, Head(upserts)[1], Head(upserts)[2]), Tail(upserts))

\* the account the loop starts from
InitialAccount == [code |-> "", storage |-> EmptyStorage, balance |-> 0, nonce |-> 0]

\* the match arm without the address test
ApplyChangeAnyAddress(account, apply, target) ==
    IF apply.type = "Modify"
    THEN [code |-> IF apply.code # None
                   THEN "0x" \o HexEncode(Unwrap(apply.code))
                   ELSE account.code,
          storage |-> InsertAll(account.storage, apply.storage),
          balance |-> apply.balance,
          nonce |-> apply.nonce]
    ELSE account

\* the match arm assigning the code unconditionally
ApplyChangeClearCode(account, apply, target) ==
    IF apply.type = "Modify" /\ apply.address = target
    THEN [code |-> IF apply.code # None
                   THEN "0x" \o HexEncode(Unwrap(apply.code))
                   ELSE "",
          storage |-> InsertAll(account.storage, apply.storage),
          balance |-> apply.balance,
          nonce |-> apply.nonce]
    ELSE account

\* one iteration of `for apply in changes { match apply { ... } }`
ApplyChange(account, apply, target) ==
    IF apply.type = "Modify"
    THEN IF apply.address = target
         THEN [code |-> IF apply.code # None
                        THEN "0x" \o HexEncode(Unwrap(apply.code))
                        ELSE account.code,
               storage |-> InsertAll(account.storage, apply.storage),
               balance |-> apply.balance,
               nonce |-> apply.nonce]
         ELSE account
    ELSE account  \* Apply::Delete: only printed

RECURSIVE CollectFrom(_, _, _)
CollectFrom(account, chs, target) ==
    IF chs = <<>> THEN account
    ELSE CollectFrom(ApplyChange(account, Head(chs), target), Tail(chs), target)

\* the whole loop, from the fresh account
Collect(chs, target) == CollectFrom(InitialAccount, chs, target)

\* an Apply::Delete arm that prints nothing
DeleteLinesDropped(chs) == <<>>

\* the addresses printed by the Apply::Delete arm, in order
RECURSIVE DeleteLines(_)
DeleteLines(chs) ==
    IF chs = <<>> THEN <<>>
    ELSE (IF Head(chs).type = "Delete" THEN <<Head(chs).address>> ELSE <<>>)
         \o DeleteLines(Tail(chs))

\* HashMap::insert(contract_address, account)
AllocInsert(alloc, a, account) ==
    [x \in (DOMAIN alloc) \cup {a} |-> IF x = a THEN account ELSE alloc[x]]

\* the loop folding into the entry genesis.alloc already holds for the address
simulate_reusing_entry(alloc, target, chs) ==
    AllocInsert(alloc, target,
                CollectFrom(IF target \in DOMAIN alloc THEN alloc[target]
                            ELSE InitialAccount, chs, target))

\* genesis.alloc after simulate_system_contract
simulate_system_contract(alloc, target, chs) ==
    AllocInsert(alloc, target, Collect(chs, target))

\* let state = BTreeMap::new()
EmptyState == <<>>

\* the backend is only borrowed by the executor; deconstruct() hands the
\* changes to the caller and nothing applies them to the backend
backend_after_transact(state, chs) == state

-----------------------------------------------------------------------------
(* What a simulation is given, and the executor *)

\* the inputs of one simulate_system_contract call: genesis.config.chain_id,
\* the contract address, the artifact's byte code (decoded) and the encoded
\* constructor call
SimInput(chain_id, address, byte_code, constructor) ==
    [chain_id |-> chain_id, address |-> address, byte_code |-> byte_code,
     constructor |-> constructor]

\* what transact_create_with_address works on: the vicinity's chain id, the
\* address, bytecode.append(&mut constructor) and the backend's state; the
\* caller, the value, the gas limit and the rest of the vicinity are constants
transact_input(input, state) ==
    [chain_id |-> input.chain_id, address |-> input.address,
     init_code |-> input.byte_code \o input.constructor, state |-> state]

\* the executor is a function of what it works on: it can answer a call with
\* (r, chs) unless it answered the same call otherwise before
ExecutorAnswers(known, call, r, chs) ==
    \A k \in known : k.call = call => (k.reason = r /\ k.changes = chs)

\* the answers known so far, with this one
Remember(known, call, r, chs) ==
    known \cup {[call |-> call, reason |-> r, changes |-> chs]}

\* create_genesis_config(DEV_NET): the staking contract, its byte code and
\* its encoded constructor call
StakingRun == SimInput(DEV_NET_CHAIN_ID, STAKING_ADDRESS, <<1>>, <<2>>)

\* the inputs of repeated simulations: the staking run, and runs that differ
\* from it in the chain id (Genesis::default() has 100), in the address, in
\* the byte code or in the constructor call
RedeployInputs ==
    {SimInput(c, STAKING_ADDRESS, <<1>>, <<2>>) : c \in {DEV_NET_CHAIN_ID, 100}}
    \cup {SimInput(DEV_NET_CHAIN_ID, a, <<1>>, <<2>>) : a \in SystemContracts}
    \cup {SimInput(DEV_NET_CHAIN_ID, STAKING_ADDRESS, b, c) :
             b \in {<<1>>, <<1, 2>>}, c \in {<<>>, <<2>>}}

-----------------------------------------------------------------------------
(* The precompile handlers *)

\* U256::as_u64: panics (None here) when the value does not fit
as_u64(c) == IF c > U64Max THEN None ELSE Some(c)

\* the gas test comparing against the low 64 bits of the cost
GasExceededLowBits(cost, target_gas) == target_gas < cost % (U64Max + 1)

\* cost > U256::from(u64::MAX) || target_gas < cost.as_u64()
GasExceeded(cost, target_gas) ==
    cost > U64Max \/ target_gas < Unwrap(as_u64(cost))

PrecompileResult(status, output, cost, executed) ==
    [status |-> status, output |-> output, cost |-> cost, executed |-> executed]

\* exec_as_precompile; cost is builtin.cost(input, 0) and exec is what
\* builtin.execute(input, output) does: [ok, out]
exec_as_precompile(cost, exec, gas_limit) ==
    IF gas_limit # None /\ GasExceeded(cost, Unwrap(gas_limit))
    THEN PrecompileResult("OutOfGas", <<>>, None, FALSE)
    ELSE IF exec.ok
         THEN IF as_u64(cost) = None
              THEN PrecompileResult("Panic", <<>>, None, TRUE)
              ELSE PrecompileResult("Ok", exec.out, as_u64(cost), TRUE)
         ELSE PrecompileResult("Other", <<>>, None, TRUE)

\* the closure of precompile_entry!: the first use of $builtins runs
\* builtins(), whose unwraps panic and poison the static when the file is
\* absent, is no JSON table of builtins or holds an invalid builtin; then
\* $builtins.get(index).unwrap(), then exec_as_precompile
precompile_entry(loaded, index, cost, exec, gas_limit) ==
    IF loaded.state # "loaded"
    THEN PrecompileResult("Panic", <<>>, None, FALSE)
    ELSE IF index \notin loaded.table
         THEN PrecompileResult("Panic", <<>>, None, FALSE)
         ELSE exec_as_precompile(cost, exec, gas_limit)

\* what a builtin's execute can do: write an output and succeed, or reject
ExecOutcomes == {[ok |-> TRUE, out |-> <<>>], [ok |-> TRUE, out |-> <<171>>],
                 [ok |-> FALSE, out |-> <<>>]}

\* the nine Istanbul builtins, at the addresses the handlers are registered for
IstanbulBuiltins == RegisteredIndices

\* lazy_static!: ISTANBUL_BUILTINS before its first use
Unloaded == [state |-> "unloaded", table |-> {}]

\* what JsonPrecompile::builtins("./res/istanbul_builtins.json") can end in:
\* a panic (the static stays poisoned), the nine builtins, or a table that
\* lacks an address (here the BLAKE2 compression function at 9)
LoadOutcomes ==
    {[state |-> "poisoned", table |-> {}],
     [state |-> "loaded", table |-> IstanbulBuiltins],
     [state |-> "loaded", table |-> IstanbulBuiltins \ {9}]}

NoCall == [index |-> 0, gas_limit |-> None, builtin_cost |-> None,
           result |-> PrecompileResult("none", <<>>, None, FALSE)]

-----------------------------------------------------------------------------
(* GenesisConfig and the staking constructor's inputs *)

\* validator addresses (H160), by name
ValidatorAddresses == {"v1", "v2", "v3"}

\* stake amounts (U256)
StakeAmounts == {3, 4}

\* DEV_NET, with its validator list cut to two: every validator has a stake
DevNetValidators == <<"v1", "v2">>
DevNetInitialStakes == [v \in {"v1", "v2"} |-> 3]

\* the GenesisConfig values of the bounds: any validator list (repeats
\* allowed), any stake map keyed by some of the addresses
ValidatorLists == SeqsUpTo(ValidatorAddresses, MaxValidators)
StakeMaps == UNION {[D -> StakeAmounts] : D \in SUBSET ValidatorAddresses}

\* for &v in &cfg.validators { if let Some(stake) = cfg.initial_stakes.get(&v)
\* { initial_stakes.push(stake); initial_stake_total += stake } }
RECURSIVE CollectStakes(_, _, _)
CollectStakes(validators, stakes, acc) ==
    IF validators = <<>> THEN acc
    ELSE LET v == Head(validators)
         IN CollectStakes(Tail(validators), stakes,
                          IF v \in DOMAIN stakes
                          THEN [initial_stakes |-> Append(acc.initial_stakes, stakes[v]),
                                initial_stake_total |-> acc.initial_stake_total + stakes[v]]
                          ELSE acc)

\* the inputs handed to invoke_constructor: Token::Array(validators),
\* Token::Array(stakes), and the total printed beside them
StakingInputs(validators, stakes) ==
    LET collected == CollectStakes(validators, stakes,
                                   [initial_stakes |-> <<>>, initial_stake_total |-> 0])
    IN [validators |-> validators,
        stakes |-> collected.initial_stakes,
        initial_stake_total |-> collected.initial_stake_total]

-----------------------------------------------------------------------------
(* Initial state *)

\* the state before create_genesis_config reads its configuration
InitRun ==
    /\ pc = "start"
    /\ genesis_alloc = <<>>          \* Genesis::default(): alloc is empty
    /\ backend = EmptyState
    /\ reason = "none"
    /\ changes = <<>>
    /\ contract_address = STAKING_ADDRESS
    /\ stdout_deletes = <<>>
    /\ simulate_result = "none"
    /\ invoke_result = "none"
    /\ file = None
    /\ run_result = "none"
    /\ calls = 0
    /\ sim_input = StakingRun
    /\ executor = {}
    /\ first = {}
    /\ builtins = Unloaded
    /\ presult = NoCall
    /\ ctor_inputs = None

\* main: the configuration is DEV_NET
Init ==
    /\ InitRun
    /\ cfg_validators = DevNetValidators
    /\ cfg_initial_stakes = DevNetInitialStakes

\* create_genesis_config called with any GenesisConfig of the bounds
InitAnyConfig ==
    /\ InitRun
    /\ cfg_validators \in ValidatorLists
    /\ cfg_initial_stakes \in StakeMaps

-----------------------------------------------------------------------------
(* Actions *)

\* simulate_system_contract(genesis, contract_address, artifact, constructor)
\* with the inputs input, the executor answering with exit reason r and the
\* Apply sequence chs
Simulate(input, r, chs) ==
    /\ ExecutorAnswers(executor, transact_input(input, EmptyState), r, chs)
    /\ executor' = Remember(executor, transact_input(input, EmptyState), r, chs)
    /\ sim_input' = input
    /\ reason' = r
    /\ changes' = chs
    /\ contract_address' = input.address
    /\ backend' = backend_after_transact(EmptyState, chs)
    /\ stdout_deletes' = DeleteLines(chs)
    /\ genesis_alloc' = simulate_system_contract(genesis_alloc, input.address, chs)
    /\ simulate_result' = "Ok"
    /\ calls' = calls + 1
    /\ first' = IF \E f \in first : f.input = input
                THEN first
                ELSE first \cup {[input |-> input,
                                  entry |-> genesis_alloc'[input.address]]}

\* invoke_constructor: encode_input(...)? fails and the error is returned
InvokeConstructorEncodeError ==
    /\ pc = "start"
    /\ ctor_inputs' = Some(StakingInputs(cfg_validators, cfg_initial_stakes))
    /\ invoke_result' = "Err"
    /\ pc' = "invoked"
    /\ UNCHANGED <<file, run_result>>
    /\ UNCHANGED simVars
    /\ UNCHANGED precompileVars
    /\ UNCHANGED cfgVars

\* invoke_constructor: the encoding succeeds, simulate_system_contract(..)?
\* runs and Ok(()) is returned
InvokeConstructorSimulate ==
    /\ pc = "start"
    /\ \E r \in ExitReasons, chs \in ChangeSeqs(STAKING_ADDRESS) :
           Simulate(StakingRun, r, chs)
    /\ ctor_inputs' = Some(StakingInputs(cfg_validators, cfg_initial_stakes))
    /\ invoke_result' = simulate_result'
    /\ pc' = "invoked"
    /\ UNCHANGED <<file, run_result>>
    /\ UNCHANGED precompileVars
    /\ UNCHANGED cfgVars

\* std::fs::write(filename, json) creates or truncates the file, then writes:
\* it writes everything, or cannot create the file, or fails part way
WriteOutcomes == {"written", "not_created", "cut_short"}

\* the file after std::fs::write of the serialized genesis
file_after_write(old, alloc, outcome) ==
    CASE outcome = "written" -> Some([alloc |-> alloc, complete |-> TRUE])
      [] outcome = "not_created" -> old
      [] outcome = "cut_short" -> Some([alloc |-> alloc, complete |-> FALSE])

\* create_genesis_config after invoke_constructor(..); (its Result is
\* dropped): serialize the genesis and std::fs::write(filename, json)?
SaveToFile ==
    /\ pc = "invoked"
    /\ \E outcome \in WriteOutcomes :
           /\ file' = file_after_write(file, genesis_alloc, outcome)
           /\ run_result' = IF outcome = "written" THEN "Ok" ELSE "Err"
    /\ pc' = "done"
    /\ UNCHANGED invoke_result
    /\ UNCHANGED simVars
    /\ UNCHANGED precompileVars
    /\ UNCHANGED <<cfgVars, ctor_inputs>>

Next == InvokeConstructorEncodeError \/ InvokeConstructorSimulate \/ SaveToFile

\* main: one run of create_genesis_config(DEV_NET, "my.json")
Spec == Init /\ [][Next]_vars

\* the Apply sequences of the repeated deployments: nothing, the code set,
\* two storage keys reported in descending key order, one storage key
ShortSeqs(target) ==
    {<<>>,
     <<Modify(target, 0, 1, Some(<<96, 254>>), <<>>, TRUE)>>,
     <<Modify(target, 0, 1, None, <<<<2, 8>>, <<1, 7>>>>, FALSE)>>,
     <<Modify(target, 0, 1, None, <<<<1, 9>>>>, FALSE)>>}

\* simulate_system_contract called again, on the Genesis as it is
Redeploy ==
    /\ calls < MaxCalls
    /\ \E input \in RedeployInputs, r \in {"Succeed", "Revert"} :
           \E chs \in ShortSeqs(input.address) : Simulate(input, r, chs)
    /\ UNCHANGED mainVars
    /\ UNCHANGED precompileVars
    /\ UNCHANGED <<cfgVars, ctor_inputs>>

\* another run of create_genesis_config: let mut genesis = Genesis::default()
FreshGenesis ==
    /\ DOMAIN genesis_alloc # {}
    /\ genesis_alloc' = <<>>
    /\ reason' = "none"
    /\ changes' = <<>>
    /\ stdout_deletes' = <<>>
    /\ simulate_result' = "none"
    /\ UNCHANGED <<backend, contract_address, calls, sim_input, executor, first>>
    /\ UNCHANGED mainVars
    /\ UNCHANGED precompileVars
    /\ UNCHANGED <<cfgVars, ctor_inputs>>

NextRedeploy == Redeploy \/ FreshGenesis

SpecRedeploy == Init /\ [][NextRedeploy]_vars

\* the executor calls the handler registered at index with a gas limit; the
\* first call loads the builtin table; the builtin, when the table holds it,
\* prices the input at cost and executes it as exec
PrecompileCall ==
    /\ builtins' \in (IF builtins = Unloaded THEN LoadOutcomes ELSE {builtins})
    /\ \E index \in RegisteredIndices, gas_limit \in {None} \cup {Some(g) : g \in 0..U64Max},
          cost \in 0..U256Max, exec \in ExecOutcomes :
           presult' = [index |-> index, gas_limit |-> gas_limit,
                       builtin_cost |-> IF index \in builtins'.table
                                        THEN Some(cost) ELSE None,
                       result |-> precompile_entry(builtins', index, cost, exec, gas_limit)]
    /\ UNCHANGED mainVars
    /\ UNCHANGED simVars
    /\ UNCHANGED <<cfgVars, ctor_inputs>>

NextPrecompile == PrecompileCall

SpecPrecompile == Init /\ [][NextPrecompile]_vars

\* create_genesis_config up to the call of invoke_constructor: the stake list
\* and the total are built from the configuration
BuildInputs ==
    /\ ctor_inputs = None
    /\ ctor_inputs' = Some(StakingInputs(cfg_validators, cfg_initial_stakes))
    /\ UNCHANGED mainVars
    /\ UNCHANGED simVars
    /\ UNCHANGED precompileVars
    /\ UNCHANGED cfgVars

NextInputs == BuildInputs

SpecInputs == InitAnyConfig /\ [][NextInputs]_vars

-----------------------------------------------------------------------------
(* Helpers of the properties *)

SetMax(S) == CHOOSE x \in S : \A y \in S : y <= x

\* the entries of chs that name address a, in order
EntriesOf(chs, a) == SelectSeq(chs, LAMBDA e : e.address = a)

\* the Apply::Modify entries of chs that name address a, in order
TargetModifies(chs, a) ==
    SelectSeq(chs, LAMBDA e : e.type = "Modify" /\ e.address = a)

\* every storage upsert reported for address a, in the order reported
RECURSIVE TargetUpserts(_, _)
TargetUpserts(chs, a) ==
    IF chs = <<>> THEN <<>>
    ELSE (IF Head(chs).type = "Modify" /\ Head(chs).address = a
          THEN Head(chs).storage ELSE <<>>)
         \o TargetUpserts(Tail(chs), a)

\* simulate_system_contract has run
Simulated == reason # "none"

\* the Genesis Account Entry of the latest deployment
Entry == genesis_alloc[contract_address]

-----------------------------------------------------------------------------
(* C1 *)

\* C1: when the creation transaction ends in a failed exit reason,
\* simulate_system_contract returns an error (which invoke_constructor
\* propagates) and genesis.alloc gets no entry for the contract address.
C1_FailedDeploymentAborts ==
    (Simulated /\ reason \in FailedReasons) =>
        /\ simulate_result = "Err"
        /\ invoke_result = "Err"
        /\ contract_address \notin DOMAIN genesis_alloc

-----------------------------------------------------------------------------
(* C2 *)

\* C2: in a run in which a step before serialization failed (an encoding
\* error returned by invoke_constructor, or a failed deployment), the genesis
\* file is never written and the run does not end in Ok.
C2_NoFileAfterFailure ==
    (invoke_result = "Err" \/ reason \in FailedReasons) =>
        /\ file = None
        /\ run_result # "Ok"

-----------------------------------------------------------------------------
(* C3 *)

\* C3: entries for other addresses never affect the output: the entry is what
\* the loop yields on the target's entries alone, and genesis.alloc holds
\* exactly one key, the target address.
C3_BystandersIgnored ==
    Simulated =>
        /\ DOMAIN genesis_alloc = {contract_address}
        /\ Entry = Collect(EntriesOf(changes, contract_address), contract_address)

\* a bystander's balance, code and storage changed in the same execution that
\* modified the target
C3_Witness ==
    /\ Simulated
    /\ \E i \in DOMAIN changes :
          /\ changes[i].type = "Modify"
          /\ changes[i].address # contract_address
          /\ changes[i].storage # <<>>
          /\ changes[i].balance # 0
    /\ TargetModifies(changes, contract_address) # <<>>

-----------------------------------------------------------------------------
(* C4 *)

\* C4: the storage table holds exactly the keys upserted for the target, each
\* once and in key order, each mapped to the value of its last upsert.
C4_LastWriteWins ==
    Simulated =>
        LET st == Entry.storage
            U == TargetUpserts(changes, contract_address)
        IN /\ {st[i][1] : i \in DOMAIN st} = {U[j][1] : j \in DOMAIN U}
           /\ \A i \in DOMAIN st :
                 st[i][2] = U[SetMax({j \in DOMAIN U : U[j][1] = st[i][1]})][2]
           /\ \A i, j \in DOMAIN st : i < j => st[i][1] < st[j][1]

\* the writes k1:v1, k2:v2 then k1:v3 gave {k1:v3, k2:v2}
C4_Witness ==
    /\ Simulated
    /\ TargetUpserts(changes, contract_address) = <<<<1, 7>>, <<2, 8>>, <<1, 9>>>>
    /\ Entry.storage = <<<<1, 9>>, <<2, 8>>>>

-----------------------------------------------------------------------------
(* C5 *)

-----------------------------------------------------------------------------
(* C6 *)

\* C6: after a creation that ended in a failed exit reason, the world state
\* store is what it was before the call (the empty store the call created)
\* and the caller sees nothing of the failed run: genesis.alloc is what it
\* was before the call, empty.
C6_FailedLeavesNoTrace ==
    (Simulated /\ reason \in FailedReasons) =>
        /\ backend = EmptyState
        /\ DOMAIN genesis_alloc = {}

-----------------------------------------------------------------------------
(* C7 *)

\* C7: a call whose gas limit is below the builtin's cost fails with
\* OutOfGas, without executing the builtin and without output; a call whose
\* gas limit is at least the cost is not rejected for gas.
C7_GasBelowCostIsOutOfGas ==
    (presult.gas_limit # None /\ presult.builtin_cost # None) =>
        LET g == Unwrap(presult.gas_limit)
            c == Unwrap(presult.builtin_cost)
            res == presult.result
        IN /\ g < c => /\ res.status = "OutOfGas"
                       /\ ~res.executed
                       /\ res.output = <<>>
           /\ g >= c => res.status # "OutOfGas"

\* a gas limit equal to the low bits of a cost beyond the u64 range
C7_Witness ==
    /\ presult.gas_limit # None
    /\ presult.builtin_cost # None
    /\ Unwrap(presult.builtin_cost) > U64Max
    /\ Unwrap(presult.gas_limit) = Unwrap(presult.builtin_cost) % (U64Max + 1)
    /\ presult.result.status = "OutOfGas"

-----------------------------------------------------------------------------
(* C8 *)

\* C8: for every registered address, input and gas limit (absent included),
\* the handler returns a success or a typed error and never panics.
C8_HandlerNeverPanics == presult.result.status # "Panic"

-----------------------------------------------------------------------------
(* C9 *)

\* C9: a simulation with the inputs (chain id, contract address, byte code,
\* constructor call) of an earlier one yields the entry the earlier one
\* yielded: the same code, storage table in the same order, balance and
\* nonce, whatever was simulated in between and whatever genesis.alloc holds.
C9_SameInputsSameEntry ==
    Simulated => \A f \in first : f.input = sim_input => Entry = f.entry

\* the third simulation repeats the inputs of an earlier one, on a Genesis
\* that holds the other contract's entry too; the executor reported two
\* storage keys, the larger first, and the table lists them in key order
C9_Witness ==
    /\ Simulated
    /\ calls = 3
    /\ Cardinality(first) = 2
    /\ DOMAIN genesis_alloc = SystemContracts
    /\ TargetUpserts(changes, contract_address) = <<<<2, 8>>, <<1, 7>>>>
    /\ \E f \in first : /\ f.input = sim_input
                        /\ f.entry.storage = <<<<1, 7>>, <<2, 8>>>>
                        /\ Entry = f.entry

-----------------------------------------------------------------------------
(* C10 *)

\* C10: balance and nonce are those of the (last) Modify entry for the target;
\* the code is that of the last target Modify carrying code, a Modify without
\* code leaving it unchanged, and is empty when no target entry carries code.
C10_BasicAndCode ==
    Simulated =>
        LET T == TargetModifies(changes, contract_address)
            withCode == {i \in DOMAIN T : T[i].code # None}
        IN /\ T # <<>> => /\ Entry.balance = T[Len(T)].balance
                          /\ Entry.nonce = T[Len(T)].nonce
           /\ withCode = {} => Entry.code = ""
           /\ withCode # {} =>
                 Entry.code = "0x" \o HexEncode(Unwrap(T[SetMax(withCode)].code))

\* a Modify carrying code followed by a Modify without code and with another
\* balance: the code stays, the balance is the later one
C10_Witness ==
    /\ Simulated
    /\ LET T == TargetModifies(changes, contract_address)
       IN /\ Len(T) = 2
          /\ T[1].code = Some(<<96, 254>>)
          /\ T[2].code = None
          /\ T[2].balance = 5
    /\ Entry.code = "0x60fe"
    /\ Entry.balance = 5
    /\ Entry.nonce = 0

-----------------------------------------------------------------------------
(* C11 *)

RECURSIVE SumSeq(_)
SumSeq(q) == IF q = <<>> THEN 0 ELSE Head(q) + SumSeq(Tail(q))

\* C11: the stake list handed to the staking constructor has the length of
\* the validator list, its i-th element is the configured initial stake of
\* the i-th validator, and initial_stake_total is the sum of the listed stakes.
C11_StakesMatchValidators ==
    ctor_inputs # None =>
        LET in == Unwrap(ctor_inputs)
        IN /\ Len(in.stakes) = Len(in.validators)
           /\ \A i \in DOMAIN in.validators :
                 /\ in.validators[i] \in DOMAIN cfg_initial_stakes
                 /\ in.stakes[i] = cfg_initial_stakes[in.validators[i]]
           /\ in.initial_stake_total = SumSeq(in.stakes)

====
